---- MODULE Spec2Model ----
(***************************************************************************)
(* Model of emoji_picker.py (EmojiPickerWindow): the recency file and its  *)
(* load / add / save cycle, the emoji catalog with its cache and search    *)
(* filter, the click / deferred-copy / status-label handlers, the          *)
(* clipboard tools tried by copy_to_clipboard, and several instances of    *)
(* the program writing the same recency file.                              *)
(*                                                                         *)
(* A Python str is a sequence of code points (integers).  The text of a    *)
(* file is a sequence of one-character strings.                            *)
(***************************************************************************)
EXTENDS Integers, Sequences, FiniteSets, TLC

VARIABLES
    recent_file,       \* ~/.emoji_picker/recent_emojis.json: [exists, text]
    status_label,      \* text of self.status_label: <<kind, emoji>>
    copy_timeouts,     \* pending GLib.timeout_add(10, _copy_emoji_async, c), oldest first
    reset_timers,      \* number of pending timeout_add_seconds(2, reset_status_label)
    emoji_file,        \* emoji.json: [kind, entries]
    all_emojis_cache,  \* self._all_emojis_cache: [loaded, emojis]; None is loaded = FALSE
    all_grid,          \* children of self.all_grid: [buttons, label]
    recent_grid,       \* children of self.recent_grid: the buttons' emoji characters
    file_reads,        \* reads of emoji.json since the cache was last None on purpose
    last,              \* the last call observed: operation, arguments, result
    fill,              \* the inputs drawn at the start: the distinct characters to record
                       \* in turn, the list to save
    instances          \* the program instances sharing the recency file: where each is
                       \* in add_to_recent, and the writes completed so far

vars == <<recent_file, status_label, copy_timeouts, reset_timers, emoji_file,
          all_emojis_cache, all_grid, recent_grid, file_reads, last, fill, instances>>

(***************************************************************************)
(* Bounds of the model.                                                    *)
(***************************************************************************)
MaxStrLen == 2        \* code points per string in the save/load round trip
MaxListLen == 2       \* entries per list in the save/load round trip
MaxSources == 2       \* GLib timeout sources (copy callbacks, reset timers) waiting at once
MaxReads == 3         \* reads of emoji.json followed since the cache was cleared
MaxExtra == 5         \* distinct characters recorded beyond the cap of the list
MaxQueryLen == 3      \* code points per search query
MaxCycles == 2        \* add_to_recent calls followed per program instance

\* recent_emojis[:20]
MaxRecent == 20

(***************************************************************************)
(* Sequences as Python lists.                                              *)
(***************************************************************************)
Range(s) == {s[i] : i \in DOMAIN s}

Prefix(s, n) == SubSeq(s, 1, IF n < Len(s) THEN n ELSE Len(s))

NoDuplicates(s) == \A i, j \in DOMAIN s : s[i] = s[j] => i = j

Count(s, x) == Cardinality({i \in DOMAIN s : s[i] = x})

\* list.remove(x): deletes the first occurrence of x
ListRemove(s, x) ==
    LET i == CHOOSE k \in DOMAIN s : s[k] = x /\ \A j \in 1..(k - 1) : s[j] # x
    IN  SubSeq(s, 1, i - 1) \o SubSeq(s, i + 1, Len(s))

RECURSIVE Flatten(_)
Flatten(ss) == IF ss = <<>> THEN <<>> ELSE Head(ss) \o Flatten(Tail(ss))

(***************************************************************************)
(* json.dump(recent_emojis, f, indent=2): the text written for a list of   *)
(* str, with ensure_ascii left at its default.                             *)
(***************************************************************************)
HexDigits == <<"0", "1", "2", "3", "4", "5", "6", "7",
               "8", "9", "a", "b", "c", "d", "e", "f">>

Hex4(n) == << HexDigits[((n \div 4096) % 16) + 1], HexDigits[((n \div 256) % 16) + 1],
              HexDigits[((n \div 16) % 16) + 1],   HexDigits[(n % 16) + 1] >>

\* the printable ASCII characters: code points 32 to 95, and 97 to 126
PrintableLow ==
    <<" ", "!", "\"", "#", "$", "%", "&", "'", "(", ")", "*", "+", ",", "-", ".", "/",
      "0", "1", "2", "3", "4", "5", "6", "7", "8", "9", ":", ";", "<", "=", ">", "?",
      "@", "A", "B", "C", "D", "E", "F", "G", "H", "I", "J", "K", "L", "M", "N", "O",
      "P", "Q", "R", "S", "T", "U", "V", "W", "X", "Y", "Z", "[", "\\", "]", "^", "_">>

PrintableHigh ==
    <<"a", "b", "c", "d", "e", "f", "g", "h", "i", "j", "k", "l", "m", "n", "o",
      "p", "q", "r", "s", "t", "u", "v", "w", "x", "y", "z", "{", "|", "}", "~">>

Chr(n) == IF n < 96 THEN PrintableLow[n - 31] ELSE PrintableHigh[n - 96]

Ord(ch) ==
    IF \E i \in DOMAIN PrintableLow : PrintableLow[i] = ch
    THEN 31 + (CHOOSE i \in DOMAIN PrintableLow : PrintableLow[i] = ch)
    ELSE 96 + (CHOOSE i \in DOMAIN PrintableHigh : PrintableHigh[i] = ch)

IsPrintable(ch) ==
    \/ \E i \in DOMAIN PrintableLow : PrintableLow[i] = ch
    \/ \E i \in DOMAIN PrintableHigh : PrintableHigh[i] = ch

\* a variant encoder that leaves the backslash unescaped
EscapeCodePointRaw(n) ==
    IF n = 34 THEN <<"\\", "\"">>
    ELSE IF n >= 32 /\ n <= 126 /\ n # 96 THEN <<Chr(n)>>
    ELSE IF n = 10 THEN <<"\\", "n">>
    ELSE IF n = 9 THEN <<"\\", "t">>
    ELSE IF n < 65536 THEN <<"\\", "u">> \o Hex4(n)
    ELSE <<"\\", "u">> \o Hex4(55296 + (((n - 65536) \div 1024) % 1024))
         \o <<"\\", "u">> \o Hex4(56320 + ((n - 65536) % 1024))

\* json.encoder ESCAPE_ASCII: one code point of a str as written to the file
EscapeCodePoint(n) ==
    IF n = 34 THEN <<"\\", "\"">>
    ELSE IF n = 92 THEN <<"\\", "\\">>
    ELSE IF n = 10 THEN <<"\\", "n">>
    ELSE IF n = 9 THEN <<"\\", "t">>
    ELSE IF n >= 32 /\ n <= 126 /\ n # 96 THEN <<Chr(n)>>
    ELSE IF n < 65536 THEN <<"\\", "u">> \o Hex4(n)
    ELSE <<"\\", "u">> \o Hex4(55296 + (((n - 65536) \div 1024) % 1024))
         \o <<"\\", "u">> \o Hex4(56320 + ((n - 65536) % 1024))

EncodeString(s) ==
    <<"\"">> \o Flatten([i \in DOMAIN s |-> EscapeCodePoint(s[i])]) \o <<"\"">>

\* "[]" for the empty list, else "[\n  item,\n  item\n]"
JsonDump(list) ==
    IF list = <<>> THEN <<"[", "]">>
    ELSE <<"[">>
         \o Flatten([i \in DOMAIN list |->
                (IF i = 1 THEN <<"\n", " ", " ">> ELSE <<",", "\n", " ", " ">>)
                \o EncodeString(list[i])])
         \o <<"\n", "]">>

(***************************************************************************)
(* json.load(f): the decoder, for a text that is an array of strings.  Any *)
(* other text of the model (empty, cut short, not JSON) raises, which is   *)
(* the result [ok |-> FALSE].                                              *)
(***************************************************************************)
Failed == [ok |-> FALSE, val |-> <<>>, end |-> 0]

IsWhitespace(ch) == ch \in {" ", "\t", "\n", "\r"}

RECURSIVE SkipWhitespace(_, _)
SkipWhitespace(t, i) ==
    IF i <= Len(t) /\ IsWhitespace(t[i]) THEN SkipWhitespace(t, i + 1) ELSE i

IsHex(ch) == \E k \in DOMAIN HexDigits : HexDigits[k] = ch

HexVal(ch) == (CHOOSE k \in DOMAIN HexDigits : HexDigits[k] = ch) - 1

\* json.decoder._decode_uXXXX: the value of the four hex digits at t[i..i+3], or -1
DecodeU(t, i) ==
    IF i + 3 <= Len(t) /\ \A k \in i..(i + 3) : IsHex(t[k])
    THEN HexVal(t[i]) * 4096 + HexVal(t[i + 1]) * 256 + HexVal(t[i + 2]) * 16 + HexVal(t[i + 3])
    ELSE -1

\* json.decoder.py_scanstring from t[i], the character after the opening quote
RECURSIVE ScanString(_, _, _)
ScanString(t, i, acc) ==
    IF i > Len(t) THEN Failed
    ELSE IF t[i] = "\"" THEN [ok |-> TRUE, val |-> acc, end |-> i + 1]
    ELSE IF t[i] # "\\" THEN
        IF IsPrintable(t[i]) THEN ScanString(t, i + 1, Append(acc, Ord(t[i])))
        ELSE Failed
    ELSE IF i + 1 > Len(t) THEN Failed
    ELSE IF t[i + 1] = "\"" THEN ScanString(t, i + 2, Append(acc, 34))
    ELSE IF t[i + 1] = "\\" THEN ScanString(t, i + 2, Append(acc, 92))
    ELSE IF t[i + 1] = "/" THEN ScanString(t, i + 2, Append(acc, 47))
    ELSE IF t[i + 1] = "n" THEN ScanString(t, i + 2, Append(acc, 10))
    ELSE IF t[i + 1] = "t" THEN ScanString(t, i + 2, Append(acc, 9))
    ELSE IF t[i + 1] # "u" THEN Failed
    ELSE LET uni == DecodeU(t, i + 2)
             uni2 == IF i + 7 <= Len(t) /\ t[i + 6] = "\\" /\ t[i + 7] = "u"
                     THEN DecodeU(t, i + 8) ELSE -1
         IN  IF uni < 0 THEN Failed
             ELSE IF uni >= 55296 /\ uni <= 56319 /\ uni2 >= 56320 /\ uni2 <= 57343
             THEN ScanString(t, i + 12,
                      Append(acc, 65536 + (uni - 55296) * 1024 + (uni2 - 56320)))
             ELSE ScanString(t, i + 6, Append(acc, uni))

\* JSONArray: the items after "[" and whitespace, i at the first item
RECURSIVE ScanItems(_, _, _)
ScanItems(t, i, acc) ==
    IF i > Len(t) \/ t[i] # "\"" THEN Failed
    ELSE LET s == ScanString(t, i + 1, <<>>)
             j == SkipWhitespace(t, s.end)
         IN  IF ~s.ok \/ j > Len(t) THEN Failed
             ELSE IF t[j] = "]" THEN [ok |-> TRUE, val |-> Append(acc, s.val), end |-> j + 1]
             ELSE IF t[j] = "," THEN ScanItems(t, SkipWhitespace(t, j + 1), Append(acc, s.val))
             ELSE Failed

JsonLoad(t) ==
    LET i == SkipWhitespace(t, 1)
    IN  IF i > Len(t) \/ t[i] # "[" THEN Failed
        ELSE LET j == SkipWhitespace(t, i + 1)
                 r == IF j <= Len(t) /\ t[j] = "]"
                      THEN [ok |-> TRUE, val |-> <<>>, end |-> j + 1]
                      ELSE ScanItems(t, j, <<>>)
             IN  IF r.ok /\ SkipWhitespace(t, r.end) > Len(t) THEN r ELSE Failed

(***************************************************************************)
(* The recency file.                                                       *)
(***************************************************************************)
\* the emoji characters of the model: one code point each, from U+1F600
E(i) == <<128512 + i>>

\* a full recency list, as an earlier run leaves it
Old == [i \in 1..MaxRecent |-> E(i)]

MissingFile == [exists |-> FALSE, text |-> <<>>]

FileWith(text) == [exists |-> TRUE, text |-> text]

\* a variant that never reads the file
LoadRecentFresh(file) == <<>>

\* load_recent_emojis: [] when the file is missing or json.load raises
LoadRecent(file) ==
    IF file.exists
    THEN LET r == JsonLoad(file.text) IN IF r.ok THEN r.val ELSE <<>>
    ELSE <<>>

\* config_dir.mkdir(exist_ok=True): it returns (the directory was there or is
\* created), or it raises because the directory is absent and cannot be created
MkdirOutcomes == {"ok", "fails"}

\* load_recent_emojis as a call: the mkdir is outside the try block
LoadRecentCall(mkdir, file) ==
    IF mkdir = "fails" THEN [raised |-> TRUE, ret |-> <<>>]
    ELSE [raised |-> FALSE, ret |-> LoadRecent(file)]

\* variants of the list update of add_to_recent
RecordUseNoCap(list, c) ==
    <<c>> \o (IF c \in Range(list) THEN ListRemove(list, c) ELSE list)

RecordUseNoRemove(list, c) == Prefix(<<c>> \o list, MaxRecent)

RecordUseAppend(list, c) ==
    IF c \in Range(list) THEN Prefix(Append(ListRemove(list, c), c), MaxRecent)
    ELSE Prefix(<<c>> \o list, MaxRecent)

RecordUseKeepOldest(list, c) ==
    LET l == <<c>> \o (IF c \in Range(list) THEN ListRemove(list, c) ELSE list)
    IN  IF Len(l) > MaxRecent THEN SubSeq(l, Len(l) - MaxRecent + 1, Len(l)) ELSE l

\* add_to_recent, between the load and the save: remove, insert(0, c), [:20]
RecordUse(list, c) ==
    Prefix(<<c>> \o (IF c \in Range(list) THEN ListRemove(list, c) ELSE list), MaxRecent)

\* what happens to open(recent_file, 'w') and json.dump: the write completes, open
\* raises and the file is untouched, or the file is truncated and the write is cut
SaveOutcomes == {"ok", "open_fails", "cut_empty", "cut_late"}

\* a variant that writes over the old text without truncating it
SaveEffectInPlace(file, list, outcome) ==
    LET text == JsonDump(list)
    IN  IF outcome = "ok"
        THEN FileWith(text \o SubSeq(file.text, Len(text) + 1, Len(file.text)))
        ELSE IF outcome = "open_fails" THEN file
        ELSE IF outcome = "cut_empty" THEN FileWith(<<>>)
        ELSE FileWith(Prefix(text, Len(text) - 1))

\* save_recent_emojis: the file after the call
SaveEffect(file, list, outcome) ==
    LET text == JsonDump(list)
    IN  IF outcome = "ok" THEN FileWith(text)
        ELSE IF outcome = "open_fails" THEN file
        ELSE IF outcome = "cut_empty" THEN FileWith(<<>>)
        ELSE FileWith(Prefix(text, Len(text) - 1))

\* add_to_recent on the file alone
AddToRecentEffect(file, c, outcome) ==
    SaveEffect(file, RecordUse(LoadRecent(file), c), outcome)

(***************************************************************************)
(* The calls observed.                                                     *)
(***************************************************************************)
NoCall == [op |-> "none", c |-> <<>>, list |-> <<>>, ret |-> <<>>, ok |-> TRUE,
           saved |-> FALSE, q |-> <<>>, cat |-> <<>>, read |-> FALSE, tried |-> <<>>,
           raised |-> FALSE]

FillOff == [on |-> FALSE, start |-> 0, stride |-> 0, n |-> 0, list |-> <<>>]

(***************************************************************************)
(* The emoji catalog: emoji.json, its cache and the search filter.         *)
(***************************************************************************)
\* a str from its characters
S(chars) == [i \in DOMAIN chars |-> Ord(chars[i])]

\* str.lower(), on ASCII
Lower(s) == [i \in DOMAIN s |-> IF s[i] >= 65 /\ s[i] <= 90 THEN s[i] + 32 ELSE s[i]]

IsSpace(n) == n \in {32, 9, 10, 13}

\* str.split(): the runs of non-whitespace code points
RECURSIVE SplitFrom(_, _, _, _)
SplitFrom(s, i, word, words) ==
    IF i > Len(s) THEN (IF word = <<>> THEN words ELSE Append(words, word))
    ELSE IF IsSpace(s[i])
    THEN SplitFrom(s, i + 1, <<>>, IF word = <<>> THEN words ELSE Append(words, word))
    ELSE SplitFrom(s, i + 1, Append(word, s[i]), words)

Split(s) == SplitFrom(s, 1, <<>>, <<>>)

\* word in text
IsIn(word, text) ==
    \E i \in 1..(Len(text) - Len(word) + 1) : SubSeq(text, i, i + Len(word) - 1) = word

\* emoji_info.get(key, '')
Get(info, key) == IF key \in DOMAIN info THEN info[key] ELSE <<>>

NoneCache == [loaded |-> FALSE, emojis |-> <<>>]

Cached(emojis) == [loaded |-> TRUE, emojis |-> emojis]

\* load_emoji_data: the items of the JSON object, {} when the file is missing or unreadable
LoadEmojiData(file) == IF file.kind = "ok" THEN file.entries ELSE <<>>

\* the record built for one item of emoji.json
EmojiRecord(item) ==
    [char |-> item.char,
     name |-> Get(item.info, "name"),
     slug |-> Get(item.info, "slug"),
     group |-> Get(item.info, "group"),
     search_text |-> Lower(Get(item.info, "name") \o <<32>> \o Get(item.info, "slug")
                           \o <<32>> \o Get(item.info, "group"))]

\* a variant that does not cache an empty catalog
GetAllEmojisUncachedEmpty(cache, file) ==
    IF cache.loaded THEN [ret |-> cache.emojis, cache |-> cache, read |-> FALSE]
    ELSE LET data == LoadEmojiData(file)
             emojis == [i \in DOMAIN data |-> EmojiRecord(data[i])]
         IN  IF data = <<>> THEN [ret |-> <<>>, cache |-> cache, read |-> TRUE]
             ELSE [ret |-> emojis, cache |-> Cached(emojis), read |-> TRUE]

\* get_all_emojis: what it returns, the cache after the call, whether emoji.json was read
GetAllEmojis(cache, file) ==
    IF cache.loaded THEN [ret |-> cache.emojis, cache |-> cache, read |-> FALSE]
    ELSE LET data == LoadEmojiData(file)
             emojis == [i \in DOMAIN data |-> EmojiRecord(data[i])]
         IN  IF data = <<>> THEN [ret |-> <<>>, cache |-> Cached(<<>>), read |-> TRUE]
             ELSE [ret |-> emojis, cache |-> Cached(emojis), read |-> TRUE]

\* a variant in which one matching word is enough
RECURSIVE MatchesAny(_, _, _)
MatchesAny(emoji_data, search_words, k) ==
    IF k > Len(search_words) THEN search_words = <<>>
    ELSE IF \/ IsIn(search_words[k], Lower(emoji_data.name))
            \/ IsIn(search_words[k], Lower(emoji_data.slug))
            \/ IsIn(search_words[k], Lower(emoji_data.group))
    THEN TRUE
    ELSE MatchesAny(emoji_data, search_words, k + 1)

\* filter_emojis, the loop over search_words from the k-th word on
RECURSIVE Matches(_, _, _)
Matches(emoji_data, search_words, k) ==
    IF k > Len(search_words) THEN TRUE
    ELSE IF \/ IsIn(search_words[k], Lower(emoji_data.name))
            \/ IsIn(search_words[k], Lower(emoji_data.slug))
            \/ IsIn(search_words[k], Lower(emoji_data.group))
    THEN Matches(emoji_data, search_words, k + 1)
    ELSE FALSE

Chars(emojis) == [i \in DOMAIN emojis |-> emojis[i].char]

EmptyGrid == [buttons |-> <<>>, label |-> FALSE]

\* populate_all_emojis: the grid cleared, then one button per emoji of the catalog
PopulateAllEmojis(grid, cache, file) ==
    LET g == GetAllEmojis(cache, file)
    IN  [grid |-> [buttons |-> Chars(g.ret), label |-> FALSE],
         cache |-> g.cache, read |-> g.read, ret |-> g.ret]

\* a variant that leaves the buttons of the previous search in the grid
FilterEmojisKeep(grid, search_text, cache, file) ==
    LET g == GetAllEmojis(cache, file)
        search_words == Split(Lower(search_text))
        shown == SelectSeq(g.ret, LAMBDA e : Matches(e, search_words, 1))
    IN  [grid |-> [buttons |-> grid.buttons \o Chars(shown), label |-> shown = <<>>],
         cache |-> g.cache, read |-> g.read, ret |-> g.ret]

\* filter_emojis: the grid, the cache and the read of emoji.json after the call
FilterEmojis(grid, search_text, cache, file) ==
    IF search_text = <<>> THEN PopulateAllEmojis(EmptyGrid, cache, file)
    ELSE LET g == GetAllEmojis(cache, file)
             search_words == Split(Lower(search_text))
             shown == SelectSeq(g.ret, LAMBDA e : Matches(e, search_words, 1))
         IN  [grid |-> [buttons |-> Chars(shown), label |-> shown = <<>>],
              cache |-> g.cache, read |-> g.read, ret |-> g.ret]

(***************************************************************************)
(* copy_to_clipboard: xclip, then xsel, then wl-copy.                      *)
(***************************************************************************)
\* what one subprocess.run does: the tool exits with 0 or with another code, the
\* timeout expires, or the tool cannot be started; set tells whether the text is
\* on the clipboard afterwards, which a timeout leaves open
ToolOutcomes ==
    {[result |-> "exit_0", set |-> TRUE], [result |-> "exit_1", set |-> FALSE],
     [result |-> "timeout", set |-> TRUE], [result |-> "timeout", set |-> FALSE],
     [result |-> "not_found", set |-> FALSE]}

Attempt(tool, out) == [tool |-> tool, out |-> out]

\* the order of the three try blocks
BackendOrder == <<"xclip", "xsel", "wl-copy">>

\* the tools run and the value returned; clipboard_success after xclip is True
\* whatever the return code, and on TimeoutExpired
ClipboardRun(xclip, xsel, wl_copy) ==
    LET after_xclip == xclip.result \in {"exit_0", "exit_1", "timeout"}
        tried_xclip == <<Attempt(BackendOrder[1], xclip)>>
        tried_xsel == IF after_xclip THEN tried_xclip
                      ELSE Append(tried_xclip, Attempt(BackendOrder[2], xsel))
        after_xsel == after_xclip \/ xsel.result = "exit_0"
        tried_wl == IF after_xsel THEN tried_xsel
                    ELSE Append(tried_xsel, Attempt(BackendOrder[3], wl_copy))
    IN  [tried |-> tried_wl, ret |-> after_xsel \/ wl_copy.result = "exit_0"]

CopyToClipboard(xclip, xsel, wl_copy) == ClipboardRun(xclip, xsel, wl_copy).ret

ClipboardResults ==
    {CopyToClipboard(x, s, w) : x \in ToolOutcomes, s \in ToolOutcomes, w \in ToolOutcomes}

(***************************************************************************)
(* Program instances on one recency file.  Each runs its callbacks one at  *)
(* a time, so it is in at most one add_to_recent; the file operations of   *)
(* different instances interleave.                                         *)
(***************************************************************************)
Instances == {1, 2}

Idle == [pc |-> "idle", c |-> <<>>, list |-> <<>>]

NoWrite == [p |-> 0, c |-> <<>>, list |-> <<>>, over |-> FALSE]

\* proc: where each instance is; cycles, done: how many add_to_recent calls each
\* has begun and the characters whose write it has completed; wrote: the write
\* completed last
NoInstances ==
    [proc |-> [p \in Instances |-> Idle], cycles |-> [p \in Instances |-> 0],
     done |-> [p \in Instances |-> {}], wrote |-> NoWrite]

\* open(recent_file, 'w'): the file is created or truncated
OpenForWriting(file) == FileWith(<<>>)

\* write through a descriptor opened at offset 0: the text replaces the start of
\* what the file holds by now
WriteAtStart(file, text) ==
    FileWith(text \o SubSeq(file.text, Len(text) + 1, Len(file.text)))

(***************************************************************************)
(* The window after __init__.                                              *)
(***************************************************************************)
Ready == <<"ready", <<>> >>
Copying(c) == <<"copying", c>>
Copied(c) == <<"copied", c>>
CopyError == <<"copy_error", <<>> >>

ui_vars == <<status_label, copy_timeouts, reset_timers, recent_grid>>
catalog_vars == <<emoji_file, all_emojis_cache, all_grid, file_reads>>

WindowInit(rfile, efile) ==
    LET p == PopulateAllEmojis(EmptyGrid, NoneCache, efile)
    IN  /\ recent_file = rfile
        /\ emoji_file = efile
        /\ all_emojis_cache = p.cache
        /\ all_grid = p.grid
        /\ file_reads = 1
        /\ recent_grid = LoadRecent(rfile)
        /\ status_label = Ready
        /\ copy_timeouts = <<>>
        /\ reset_timers = 0
        /\ instances = NoInstances

(***************************************************************************)
(* The methods of the recency file, called on their own.                   *)
(***************************************************************************)
\* the list loaded by the call is kept as last.list
AddToRecentCall(c, outcome) ==
    /\ recent_file' = AddToRecentEffect(recent_file, c, outcome)
    /\ last' = [NoCall EXCEPT !.op = "add_to_recent", !.c = c,
                              !.list = LoadRecent(recent_file), !.saved = (outcome = "ok")]
    /\ UNCHANGED <<ui_vars, catalog_vars, instances>>

add_to_recent(c, outcome) == AddToRecentCall(c, outcome) /\ UNCHANGED fill

\* the distinct-character run: the k-th character recorded, k from 0
NumDistinct == MaxRecent + MaxExtra

FillChar(f, k) == E((f.start + k * f.stride) % NumDistinct)

add_next_distinct ==
    /\ fill.on
    /\ fill.n < NumDistinct
    /\ AddToRecentCall(FillChar(fill, fill.n), "ok")
    /\ fill' = [fill EXCEPT !.n = @ + 1]

save_recent_emojis(list, outcome) ==
    /\ recent_file' = SaveEffect(recent_file, list, outcome)
    /\ last' = [NoCall EXCEPT !.op = "save_recent_emojis", !.list = list,
                              !.saved = (outcome = "ok")]
    /\ UNCHANGED <<ui_vars, catalog_vars, fill, instances>>

\* the list of the save just before is kept next to what the load returns
load_recent_emojis ==
    /\ last' = [NoCall EXCEPT !.op = "load_recent_emojis", !.ret = LoadRecent(recent_file),
                              !.list = last.list,
                              !.saved = (last.op = "save_recent_emojis" /\ last.saved)]
    /\ UNCHANGED <<recent_file, ui_vars, catalog_vars, fill, instances>>

\* load_recent_emojis where the directory may be missing: mkdir can fail only when
\* the directory, and so the file, is not there
load_recent(mkdir) ==
    LET r == LoadRecentCall(mkdir, recent_file)
    IN  /\ mkdir = "fails" => ~recent_file.exists
        /\ last' = [NoCall EXCEPT !.op = "load_recent", !.ret = r.ret, !.raised = r.raised]
        /\ UNCHANGED <<recent_file, ui_vars, catalog_vars, fill, instances>>

(***************************************************************************)
(* add_to_recent of one instance among several, file operation by file     *)
(* operation: the load with the update of the list, the open, the write.   *)
(***************************************************************************)
instance_loads(p, c) ==
    /\ instances.proc[p].pc = "idle"
    /\ instances.cycles[p] < MaxCycles
    /\ instances' = [instances EXCEPT
                         !.proc[p] = [pc |-> "loaded", c |-> c,
                                      list |-> RecordUse(LoadRecent(recent_file), c)],
                         !.cycles[p] = @ + 1]
    /\ UNCHANGED <<recent_file, ui_vars, catalog_vars, last, fill>>

instance_opens(p) ==
    /\ instances.proc[p].pc = "loaded"
    /\ recent_file' = OpenForWriting(recent_file)
    /\ instances' = [instances EXCEPT !.proc[p].pc = "opened"]
    /\ UNCHANGED <<ui_vars, catalog_vars, last, fill>>

\* wrote.over tells whether the file was still empty when the write came
instance_writes(p) ==
    LET me == instances.proc[p]
    IN  /\ me.pc = "opened"
        /\ recent_file' = WriteAtStart(recent_file, JsonDump(me.list))
        /\ instances' = [instances EXCEPT
                             !.proc[p] = Idle,
                             !.done[p] = @ \cup {me.c},
                             !.wrote = [p |-> p, c |-> me.c, list |-> me.list,
                                        over |-> recent_file.text # <<>>]]
        /\ UNCHANGED <<ui_vars, catalog_vars, last, fill>>

(***************************************************************************)
(* copy_to_clipboard, called on its own.                                   *)
(***************************************************************************)
copy_to_clipboard(text, xclip, xsel, wl_copy) ==
    LET r == ClipboardRun(xclip, xsel, wl_copy)
    IN  /\ last' = [NoCall EXCEPT !.op = "copy_to_clipboard", !.c = text,
                                  !.tried = r.tried, !.ok = r.ret]
        /\ UNCHANGED <<recent_file, ui_vars, catalog_vars, fill, instances>>

(***************************************************************************)
(* The methods of the catalog.                                             *)
(***************************************************************************)
get_all_emojis ==
    LET g == GetAllEmojis(all_emojis_cache, emoji_file)
    IN  /\ g.read => file_reads < MaxReads
        /\ all_emojis_cache' = g.cache
        /\ file_reads' = IF g.read THEN file_reads + 1 ELSE file_reads
        /\ last' = [NoCall EXCEPT !.op = "get_all_emojis", !.cat = g.ret, !.read = g.read]
        /\ UNCHANGED <<recent_file, ui_vars, emoji_file, all_grid, fill, instances>>

clear_emoji_cache ==
    /\ all_emojis_cache' = NoneCache
    /\ file_reads' = 0
    /\ last' = [NoCall EXCEPT !.op = "clear_emoji_cache"]
    /\ UNCHANGED <<recent_file, ui_vars, emoji_file, all_grid, fill, instances>>

\* Enter in the search entry with the text q
on_search_activated(q) ==
    LET f == FilterEmojis(all_grid, Lower(q), all_emojis_cache, emoji_file)
    IN  /\ f.read => file_reads < MaxReads
        /\ all_grid' = f.grid
        /\ all_emojis_cache' = f.cache
        /\ file_reads' = IF f.read THEN file_reads + 1 ELSE file_reads
        /\ last' = [NoCall EXCEPT !.op = "on_search_activated", !.q = q, !.cat = f.ret,
                                  !.read = f.read]
        /\ UNCHANGED <<recent_file, ui_vars, emoji_file, fill, instances>>

\* emoji.json is replaced on disk while the program runs
EmojiFileChanges(efile) ==
    /\ efile # emoji_file
    /\ emoji_file' = efile
    /\ UNCHANGED <<recent_file, ui_vars, all_emojis_cache, all_grid, file_reads, last, fill, instances>>

(***************************************************************************)
(* The handlers of the window.                                             *)
(***************************************************************************)
Buttons == Range(all_grid.buttons) \cup Range(recent_grid)

on_emoji_clicked(c) ==
    /\ c \in Buttons
    /\ Len(copy_timeouts) + reset_timers < MaxSources
    /\ status_label' = Copying(c)
    /\ copy_timeouts' = Append(copy_timeouts, c)
    /\ last' = [NoCall EXCEPT !.op = "on_emoji_clicked", !.c = c]
    /\ UNCHANGED <<recent_file, reset_timers, recent_grid, catalog_vars, fill, instances>>

\* _copy_emoji_async(emoji_char), for the oldest pending timeout
copy_emoji_async(copied, outcome) ==
    /\ copy_timeouts # <<>>
    /\ copied \/ outcome = "ok"
    /\ LET c == Head(copy_timeouts)
           file == AddToRecentEffect(recent_file, c, outcome)
       IN  /\ copy_timeouts' = Tail(copy_timeouts)
           /\ last' = [NoCall EXCEPT !.op = "copy_emoji_async", !.c = c, !.ok = copied,
                                     !.saved = (copied /\ outcome = "ok")]
           /\ IF copied /\ outcome = "ok"
              THEN /\ recent_file' = file
                   /\ status_label' = Copied(c)
                   /\ recent_grid' = LoadRecent(file)
                   /\ reset_timers' = reset_timers + 1
              ELSE IF copied
              THEN /\ recent_file' = file
                   /\ status_label' = CopyError
                   /\ UNCHANGED <<recent_grid, reset_timers>>
              ELSE /\ status_label' = CopyError
                   /\ UNCHANGED <<recent_file, recent_grid, reset_timers>>
    /\ UNCHANGED <<catalog_vars, fill, instances>>

reset_status_label ==
    /\ reset_timers > 0
    /\ reset_timers' = reset_timers - 1
    /\ status_label' = Ready
    /\ last' = [NoCall EXCEPT !.op = "reset_status_label"]
    /\ UNCHANGED <<recent_file, copy_timeouts, recent_grid, catalog_vars, fill, instances>>

(***************************************************************************)
(* Spec: the window.  Its catalog has two emojis, one of them the last     *)
(* entry of a full recency list; the user clicks those two.                *)
(***************************************************************************)
UICatalog ==
    [kind |-> "ok",
     entries |-> << [char |-> E(MaxRecent),
                     info |-> [name |-> S(<<"A", "b">>), slug |-> S(<<"a", "b">>),
                               group |-> S(<<"c">>)]],
                    [char |-> E(MaxRecent + 1),
                     info |-> [name |-> S(<<"b">>), slug |-> S(<<"b">>),
                               group |-> S(<<"c">>)]] >>]

UIRecentFiles ==
    {MissingFile, FileWith(<<>>), FileWith(JsonDump(<<>>)),
     FileWith(JsonDump(Prefix(Old, 1))), FileWith(JsonDump(Old))}

ClickSet == {E(MaxRecent), E(MaxRecent + 1)}

UIQueries == {<<>>, S(<<"a">>)}

Init ==
    /\ \E rfile \in UIRecentFiles : WindowInit(rfile, UICatalog)
    /\ last = NoCall
    /\ fill = FillOff

Next ==
    \/ \E c \in ClickSet : on_emoji_clicked(c)
    \/ \E copied \in ClipboardResults, outcome \in SaveOutcomes :
           copy_emoji_async(copied, outcome)
    \/ reset_status_label
    \/ \E q \in UIQueries : on_search_activated(q)

Spec == Init /\ [][Next]_vars

(***************************************************************************)
(* SpecRecent: any sequence of add_to_recent calls on a recency file that  *)
(* is missing, empty, cut short by a failed write, or holds a valid list.  *)
(***************************************************************************)
RecentFiles ==
    {MissingFile, FileWith(<<>>),
     FileWith(Prefix(JsonDump(Old), Len(JsonDump(Old)) - 1))}
    \cup {FileWith(JsonDump(Prefix(Old, n))) : n \in {0, 1, MaxRecent - 1, MaxRecent}}

UseSet == {E(1), E(MaxRecent), E(MaxRecent + 1)}

InitRecent ==
    /\ \E rfile \in RecentFiles : WindowInit(rfile, UICatalog)
    /\ last = NoCall
    /\ fill = FillOff

NextRecent == \E c \in UseSet, outcome \in SaveOutcomes : add_to_recent(c, outcome)

SpecRecent == InitRecent /\ [][NextRecent]_vars

(***************************************************************************)
(* SpecFill: pairwise distinct characters recorded one after the other,    *)
(* from an empty recency list.                                             *)
(***************************************************************************)
InitFill ==
    /\ \E rfile \in {MissingFile, FileWith(<<>>), FileWith(JsonDump(<<>>))} :
           WindowInit(rfile, UICatalog)
    /\ last = NoCall
    /\ \E start \in 0..(NumDistinct - 1), stride \in {1, NumDistinct - 1} :
           fill = [FillOff EXCEPT !.on = TRUE, !.start = start, !.stride = stride]

NextFill == add_next_distinct

SpecFill == InitFill /\ [][NextFill]_vars

(***************************************************************************)
(* SpecRoundTrip: save_recent_emojis and load_recent_emojis on lists of    *)
(* strings as json.load produces them.                                     *)
(***************************************************************************)
\* '"', '\', 'u', newline, U+00E9, U+1F600, a lone high and a lone low surrogate
Alphabet == <<34, 92, 117, 10, 233, 128512, 55357, 56832>>

RECURSIVE NumStrings(_)
NumStrings(len) == IF len = 0 THEN 1 ELSE 1 + Len(Alphabet) * NumStrings(len - 1)

\* the n-th string over Alphabet, shortest first
RECURSIVE StrOf(_)
StrOf(n) ==
    IF n = 0 THEN <<>>
    ELSE Append(StrOf((n - 1) \div Len(Alphabet)), Alphabet[((n - 1) % Len(Alphabet)) + 1])

\* json.load never returns a high surrogate followed by a low one: it joins them
Decoded(s) ==
    \A i \in 1..(Len(s) - 1) :
        ~(s[i] >= 55296 /\ s[i] <= 56319 /\ s[i + 1] >= 56320 /\ s[i + 1] <= 57343)

SaveLists ==
    {l \in {[i \in 1..n |-> StrOf((start + (i - 1) * stride) % NumStrings(MaxStrLen))] :
                start \in 0..(NumStrings(MaxStrLen) - 1),
                stride \in {1, Len(Alphabet) + 2},
                n \in 0..MaxListLen} :
        NoDuplicates(l) /\ \A i \in DOMAIN l : Decoded(l[i])}

InitRoundTrip ==
    /\ \E rfile \in {MissingFile, FileWith(<<>>), FileWith(JsonDump(Old))} :
           WindowInit(rfile, UICatalog)
    /\ last = NoCall
    /\ \E list \in SaveLists : fill = [FillOff EXCEPT !.list = list]

NextRoundTrip ==
    \/ save_recent_emojis(fill.list, "ok")
    \/ load_recent_emojis

SpecRoundTrip == InitRoundTrip /\ [][NextRoundTrip]_vars

(***************************************************************************)
(* SpecSearch: searches, one after the other, on an emoji.json of up to     *)
(* three entries, missing, or unreadable.                                  *)
(* SpecCache: the catalog methods in any order, while emoji.json may be    *)
(* replaced on disk.                                                       *)
(***************************************************************************)
Entry1 == [char |-> E(1), info |-> [name |-> S(<<"A", "b">>), slug |-> S(<<"b", "a">>),
                                    group |-> S(<<"c">>)]]
Entry2 == [char |-> E(2), info |-> [name |-> S(<<"b", " ", "b">>), group |-> S(<<"C">>)]]
Entry3 == [char |-> E(3), info |-> [name |-> S(<<"a">>), slug |-> S(<<"b">>)]]

CatalogFiles ==
    {[kind |-> "missing", entries |-> <<>>], [kind |-> "corrupt", entries |-> <<>>],
     [kind |-> "ok", entries |-> <<>>],
     [kind |-> "ok", entries |-> <<Entry1, Entry2, Entry3>>],
     [kind |-> "ok", entries |-> <<Entry3, Entry1>>]}

\* 'a', 'B', ' '
QueryAlphabet == {97, 66, 32}

Queries == UNION {[1..n -> QueryAlphabet] : n \in 0..MaxQueryLen}

InitSearch ==
    /\ \E efile \in CatalogFiles : WindowInit(MissingFile, efile)
    /\ last = NoCall
    /\ fill = FillOff

NextSearch == \E q \in Queries : on_search_activated(q)

SpecSearch == InitSearch /\ [][NextSearch]_vars

CacheQueries == {<<>>, S(<<"a">>), S(<<" ", "B">>)}

NextCache ==
    \/ get_all_emojis
    \/ clear_emoji_cache
    \/ \E q \in CacheQueries : on_search_activated(q)
    \/ \E efile \in CatalogFiles : EmojiFileChanges(efile)

SpecCache == InitSearch /\ [][NextCache]_vars

(***************************************************************************)
(* SpecClipboard: copy_to_clipboard called with every combination of what  *)
(* the three tools do.                                                     *)
(***************************************************************************)
ClipTexts == {E(i) : i \in 1..MaxExtra}

InitClipboard ==
    /\ WindowInit(MissingFile, UICatalog)
    /\ last = NoCall
    /\ fill = FillOff

NextClipboard ==
    \E text \in ClipTexts, x \in ToolOutcomes, s \in ToolOutcomes, w \in ToolOutcomes :
        copy_to_clipboard(text, x, s, w)

SpecClipboard == InitClipboard /\ [][NextClipboard]_vars

(***************************************************************************)
(* SpecInstances: two instances of the program record emojis in the same   *)
(* recency file.                                                           *)
(***************************************************************************)
SharedFiles ==
    {MissingFile, FileWith(JsonDump(Prefix(Old, 1))), FileWith(JsonDump(Prefix(Old, 2)))}

SharedSet == {E(2), E(3)}

InitInstances ==
    /\ \E rfile \in SharedFiles : WindowInit(rfile, UICatalog)
    /\ last = NoCall
    /\ fill = FillOff

NextInstances ==
    \E p \in Instances :
        \/ \E c \in SharedSet : instance_loads(p, c)
        \/ instance_opens(p)
        \/ instance_writes(p)

SpecInstances == InitInstances /\ [][NextInstances]_vars

(***************************************************************************)
(* SpecLoad: load_recent_emojis and add_to_recent on a recency file that   *)
(* is missing, empty, not JSON, cut short, followed by stray text, or      *)
(* holds a valid list.                                                     *)
(***************************************************************************)
LoadFiles ==
    {MissingFile, FileWith(<<>>), FileWith(<<"{">>),
     FileWith(Prefix(JsonDump(Prefix(Old, 2)), Len(JsonDump(Prefix(Old, 2))) - 1)),
     FileWith(JsonDump(Prefix(Old, 1)) \o <<"]">>)}
    \cup {FileWith(JsonDump(Prefix(Old, n))) : n \in 0..1}

LoadUseSet == {E(1), E(2)}

InitLoad ==
    /\ \E rfile \in LoadFiles : WindowInit(rfile, UICatalog)
    /\ last = NoCall
    /\ fill = FillOff

NextLoad ==
    \/ \E mkdir \in MkdirOutcomes : load_recent(mkdir)
    \/ \E c \in LoadUseSet, outcome \in SaveOutcomes : add_to_recent(c, outcome)

SpecLoad == InitLoad /\ [][NextLoad]_vars

(***************************************************************************)
(* Properties of the recency list.                                         *)
(***************************************************************************)
Persisted == LoadRecent(recent_file)

Added == last.op = "add_to_recent" /\ last.saved

\* C1: after any sequence of add_to_recent calls on a recency file that started
\* missing, empty or with at most 20 entries, the list read back from the file has at
\* most 20 entries.
C1_AtMostTwenty == Len(Persisted) <= MaxRecent

\* a new character was added to a full list, and the list is still full
C1_Witness ==
    /\ Added
    /\ Len(last.list) = MaxRecent
    /\ last.c \notin Range(last.list)
    /\ Len(Persisted) = MaxRecent
    /\ Persisted[1] = last.c

\* C2: after any sequence of add_to_recent calls on a recency file that started
\* missing, empty or free of duplicates, no character occurs twice in the list read
\* back from the file.
C2_NoDuplicates == NoDuplicates(Persisted)

\* the character just added was already the most recent one
C2_Witness ==
    /\ Added
    /\ Len(last.list) >= 2
    /\ last.list[1] = last.c
    /\ Count(Persisted, last.c) = 1

\* C3: when add_to_recent(c) finds c in a duplicate-free list L of at most 20 entries,
\* the list it leaves is c followed by the other entries of L in their order: same
\* length, c exactly once.
C3_MovesToFront ==
    (/\ Added
     /\ last.c \in Range(last.list)
     /\ NoDuplicates(last.list)
     /\ Len(last.list) <= MaxRecent)
    => /\ Len(Persisted) = Len(last.list)
       /\ Persisted[1] = last.c
       /\ Count(Persisted, last.c) = 1
       /\ SelectSeq(Persisted, LAMBDA x : x # last.c)
            = SelectSeq(last.list, LAMBDA x : x # last.c)

\* the last entry of a full list was used again
C3_Witness ==
    /\ Added
    /\ Len(last.list) = MaxRecent
    /\ last.list[MaxRecent] = last.c
    /\ Persisted[1] = last.c

\* the characters recorded so far in the distinct run are pairwise distinct
DistinctSoFar ==
    \A j, k \in 0..(fill.n - 1) : FillChar(fill, j) = FillChar(fill, k) => j = k

\* C4: from an empty list, once N > 20 pairwise distinct characters are recorded, the
\* list has exactly 20 entries, the 20 recorded last, most recent first, and none of
\* the N - 20 recorded first.
C4_NewestTwenty ==
    (fill.on /\ fill.n > MaxRecent /\ DistinctSoFar)
    => /\ Len(Persisted) = MaxRecent
       /\ \A i \in 1..MaxRecent : Persisted[i] = FillChar(fill, fill.n - i)
       /\ \A k \in 0..(fill.n - MaxRecent - 1) : FillChar(fill, k) \notin Range(Persisted)

\* 20 + MaxExtra distinct characters were recorded
C4_Witness ==
    /\ fill.on
    /\ fill.n = MaxRecent + MaxExtra
    /\ DistinctSoFar
    /\ Len(Persisted) = MaxRecent
    /\ last.c = Persisted[1]

\* C5: load_recent_emojis right after a completed save_recent_emojis(list) returns
\* list, same strings in the same order, whatever the file held before.
C5_RoundTrip ==
    (last.op = "load_recent_emojis" /\ last.saved) => last.ret = last.list

\* a list of MaxListLen strings, one with a backslash or quote, one beyond the BMP, was
\* saved and loaded
C5_Witness ==
    /\ last.op = "load_recent_emojis"
    /\ last.saved
    /\ Len(last.ret) = MaxListLen
    /\ \E i \in DOMAIN last.ret : 92 \in Range(last.ret[i]) \/ 34 \in Range(last.ret[i])
    /\ \E i \in DOMAIN last.ret : 128512 \in Range(last.ret[i])

(***************************************************************************)
(* Properties of the search and of the catalog cache.                      *)
(***************************************************************************)
Searched == last.op = "on_search_activated"

\* the tokens of a query: the maximal runs of non-whitespace code points of its
\* lowercased text, as pairs of first and last position
TokenSpans(s) ==
    {span \in (1..Len(s)) \X (1..Len(s)) :
        /\ span[1] <= span[2]
        /\ \A k \in span[1]..span[2] : ~IsSpace(s[k])
        /\ span[1] = 1 \/ IsSpace(s[span[1] - 1])
        /\ span[2] = Len(s) \/ IsSpace(s[span[2] + 1])}

\* s[i..j] occurs in text
OccursIn(s, i, j, text) ==
    \E p \in 0..(Len(text) - (j - i + 1)) : \A k \in 0..(j - i) : text[p + 1 + k] = s[i + k]

\* every token of query q is a substring of the lowercased name, slug or group
Satisfies(emoji, q) ==
    \A span \in TokenSpans(Lower(q)) :
        \E field \in {Lower(emoji.name), Lower(emoji.slug), Lower(emoji.group)} :
            OccursIn(Lower(q), span[1], span[2], field)

C7_BlankShowsAll ==
    (Searched /\ \A i \in DOMAIN last.q : IsSpace(last.q[i]))
    => /\ all_grid.buttons = Chars(all_emojis_cache.emojis)
       /\ Len(all_grid.buttons) = Len(last.cat)

\* a whitespace-only query on a catalog of three records
C7_Witness ==
    /\ Searched
    /\ last.q # <<>>
    /\ \A i \in DOMAIN last.q : IsSpace(last.q[i])
    /\ Len(all_grid.buttons) = 3

\* the records get_all_emojis builds from emoji.json as it is on disk
OnDisk ==
    IF emoji_file.kind = "ok"
    THEN [i \in DOMAIN emoji_file.entries |-> emoji_file.entries[i].char]
    ELSE <<>>

\* C8: emoji.json is read at most once between two clear_emoji_cache calls, also when
\* the read failed or gave an empty catalog; every get_all_emojis and search in between
\* gets the cached sequence; the first call after clear_emoji_cache reads the file again.
C8_ReadOncePerClear ==
    /\ [](file_reads <= 1)
    /\ []((last.op \in {"get_all_emojis", "on_search_activated"})
            => all_emojis_cache.loaded /\ last.cat = all_emojis_cache.emojis)
    /\ [][(all_emojis_cache.loaded /\ all_emojis_cache'.loaded)
            => all_emojis_cache' = all_emojis_cache /\ file_reads' = file_reads]_vars
    /\ [][(~all_emojis_cache.loaded /\ all_emojis_cache'.loaded)
            => /\ last'.read
               /\ file_reads' = 1
               /\ Chars(all_emojis_cache'.emojis) = OnDisk]_vars

\* get_all_emojis answered from a cached empty catalog, left by a read that failed,
\* although emoji.json now holds entries
C8_Witness ==
    /\ last.op = "get_all_emojis"
    /\ ~last.read
    /\ file_reads = 1
    /\ all_emojis_cache.emojis = <<>>
    /\ emoji_file.kind = "ok"
    /\ emoji_file.entries # <<>>

(***************************************************************************)
(* Properties of the copy callback.                                        *)
(***************************************************************************)
CopyRan == last.op = "copy_emoji_async"

\* the step is one run of _copy_emoji_async
CopyStep ==
    /\ copy_timeouts # <<>>
    /\ copy_timeouts' = Tail(copy_timeouts)
    /\ last'.op = "copy_emoji_async"

\* C9 as claimed: whenever copy_to_clipboard returned True for c, the recency file
\* has c at index 0 when the callback returns.
C9_Claimed ==
    (CopyRan /\ last.ok) => (Persisted # <<>> /\ Persisted[1] = last.c)

\* C9, amended: the recency file changes only in a copy callback whose
\* copy_to_clipboard returned True.  If the write of the file then completes, the
\* file has c at index 0 when the callback returns; if it does not, the file is
\* unchanged or loads as the empty list.  If copy_to_clipboard returned False the file
\* is unchanged and the status shows the copy error.  Searches, clicks and status
\* resets never change the file.
C9_FileChangesOnCopy ==
    [][/\ (CopyStep /\ last'.ok /\ last'.saved)
            => LoadRecent(recent_file') # <<>> /\ LoadRecent(recent_file')[1] = last'.c
       /\ (CopyStep /\ last'.ok /\ ~last'.saved)
            => recent_file' = recent_file \/ LoadRecent(recent_file') = <<>>
       /\ (CopyStep /\ ~last'.ok)
            => recent_file' = recent_file /\ status_label' = CopyError
       /\ ~CopyStep => recent_file' = recent_file]_vars

\* a copy of an emoji that was the last entry of a full list: now it is the first
C9_Witness ==
    /\ CopyRan
    /\ last.ok
    /\ last.saved
    /\ status_label = Copied(last.c)
    /\ Len(Persisted) = MaxRecent
    /\ Persisted[1] = last.c
    /\ last.c = Old[MaxRecent]

\* C10: when the copy succeeded and the write of the recency file failed, the status
\* reports the emoji as copied and shows no error.
C10_WriteFailureIsSilent ==
    (CopyRan /\ last.ok /\ ~last.saved) => status_label = Copied(last.c)

\* C11: copy_to_clipboard tries xclip, xsel, wl-copy in that order; a tool is
\* tried only if every tool before it failed to set the clipboard, none is tried
\* after one has set it, and the call returns True exactly when one of the tools
\* tried has set the clipboard (False exactly when all three failed).
C11_FirstSuccessWins ==
    last.op = "copy_to_clipboard" =>
        LET t == last.tried
        IN  /\ Len(t) \in 1..3
            /\ \A i \in DOMAIN t : t[i].tool = BackendOrder[i]
            /\ \A i \in DOMAIN t : i < Len(t) => ~t[i].out.set
            /\ last.ok <=> \E i \in DOMAIN t : t[i].out.set
            /\ ~last.ok <=> (Len(t) = 3 /\ \A i \in DOMAIN t : ~t[i].out.set)

(***************************************************************************)
(* Properties of several instances on one recency file.                    *)
(***************************************************************************)
\* no instance is inside add_to_recent
Quiet == \A p \in Instances : instances.proc[p].pc = "idle"

\* p is the only instance that has recorded anything
Alone(p) == \A q \in Instances \ {p} : instances.cycles[q] = 0

\* C12: an instance running alone loses nothing: between its add_to_recent calls
\* the file holds every emoji it has recorded.  With two instances the last write
\* wins without a merge: once both are done, the file holds the list of the
\* instance that wrote last, as that instance loaded and updated it (unless
\* the two writes overlapped in the file).  An interleaving in which the earlier
\* writer's emoji is lost that way is reachable (C12_Witness).
C12_LastWriteWins ==
    /\ \A p \in Instances :
           Alone(p) /\ Quiet => instances.done[p] \subseteq Range(Persisted)
    /\ Quiet /\ instances.wrote.p # 0 /\ ~instances.wrote.over
           => Persisted = instances.wrote.list

\* both instances have completed a write, and an emoji written by the one that
\* wrote earlier is not in the file, which holds the list of the later writer
C12_Witness ==
    /\ Quiet
    /\ ~instances.wrote.over
    /\ Persisted = instances.wrote.list
    /\ \E p \in Instances :
           /\ instances.wrote.p \in Instances \ {p}
           /\ \E c \in instances.done[p] : c \notin Range(Persisted)

(***************************************************************************)
(* Properties of load_recent_emojis.                                       *)
(***************************************************************************)
\* the file is not there, or json.load raises on its text
Unreadable == ~recent_file.exists \/ ~JsonLoad(recent_file.text).ok

\* C13: load_recent_emojis returns [] and does not raise whenever the recency file
\* does not exist or its contents fail to parse; and an add_to_recent of c that
\* finds such a file (its load gave []) and completes its write leaves the
\* persisted list equal to [c].
C13_LoadFailsSoft ==
    /\ last.op = "load_recent" /\ Unreadable => ~last.raised /\ last.ret = <<>>
    /\ Added /\ last.list = <<>> => Persisted = <<last.c>>

(***************************************************************************)
(* Properties of the status label.                                         *)
(***************************************************************************)
\* C14: while the deferred copy of some clicked emoji has not run yet, the status
\* label reads "Copying <emoji>..." for the emoji clicked last, whatever copy
\* callbacks and reset timers have run since that click.
C14_PendingShowsCopying ==
    copy_timeouts # <<>> => status_label = Copying(copy_timeouts[Len(copy_timeouts)])

====
